---- MODULE Spec2Model ----
(***************************************************************************)
(* go-fetch: a model of main (the fact collection, the row table and the   *)
(* presenter), getPackageCount, getGPUInfo, cleanGPUName, formatUptime and *)
(* formatBytes, translated from the annotated variant of the program.      *)
(*                                                                         *)
(* Text is modelled in two ways.  Where the code only concatenates and     *)
(* prints, a Go string is a TLA+ string.  Where the code looks inside a    *)
(* string (strings.Split, the regular expression, strings.TrimSpace,       *)
(* filepath.Base) it is a sequence of one-character strings, and Str turns *)
(* such a sequence into the string that is printed.                        *)
(*                                                                         *)
(* uint64 and int64 values do not fit the model checker's integers.  They  *)
(* are sequences of base-1024 limbs, least significant first, without      *)
(* leading zero limbs (the value 0 is the empty sequence); arithmetic on   *)
(* them keeps the 64-bit width.                                            *)
(***************************************************************************)
EXTENDS Integers, Sequences, FiniteSets, TLC

VARIABLES
    pc,        \* position in the function under execution
    stack,     \* the positions to return to, innermost first
    arg,       \* the argument of the function a function-level specification runs
    ret,       \* the value the last function returned
    env,       \* the host: runtime.GOOS, the search path, the facts the libraries read
    pkgOsInfo, \* getPackageCount: osInfo
    cmd,       \* getPackageCount: cmd
    ran,       \* the commands started so far (exec's effect on the host)
    hostname, username, osInfo, memInfo, cpuInfo,   \* main: the facts collected
    packageCount, err, gpu,                         \* main
    info,      \* main: the rows, each [label, value]
    maxLabelLength,
    out,       \* standard output: the lines printed so far
    failed     \* the fact sources whose query failed in this run

NoValue == "-"

pkgVars == <<pkgOsInfo, cmd, ran>>
mainVars == <<hostname, username, osInfo, memInfo, cpuInfo, packageCount, err, gpu,
              info, maxLabelLength, out, failed>>
vars == <<pc, stack, arg, ret, env, pkgVars, mainVars>>

\* the variables a specification of one function does not use
NoPkg == pkgOsInfo = NoValue /\ cmd = NoValue /\ ran = <<>>
NoMain ==
    /\ hostname = NoValue /\ username = NoValue /\ osInfo = [nil |-> TRUE]
    /\ memInfo = [nil |-> TRUE]
    /\ cpuInfo = NoValue /\ packageCount = 0 /\ err = NoValue /\ gpu = NoValue
    /\ info = <<>> /\ maxLabelLength = 0 /\ out = <<>> /\ failed = {}

(***************************************************************************)
(* 64-bit integers as limbs.                                               *)
(***************************************************************************)
LimbBase == 2^10
TopLimbBase == 2^4           \* the seventh limb of a 64-bit value holds 4 bits
NumLimbs == 6 + 1

RECURSIVE Norm(_)
Norm(x) == IF x = <<>> THEN <<>>
           ELSE IF x[Len(x)] = 0 THEN Norm(SubSeq(x, 1, Len(x) - 1))
           ELSE x

RECURSIVE FromInt(_)
FromInt(n) == IF n = 0 THEN <<>> ELSE <<n % LimbBase>> \o FromInt(n \div LimbBase)

RECURSIVE ToInt(_)
ToInt(x) == IF x = <<>> THEN 0 ELSE Head(x) + LimbBase * ToInt(Tail(x))

RECURSIVE MulSmallC(_, _, _)
MulSmallC(x, m, c) ==
    IF x = <<>> THEN FromInt(c)
    ELSE LET t == Head(x) * m + c
         IN  <<t % LimbBase>> \o MulSmallC(Tail(x), m, t \div LimbBase)

\* x * m and x + a, for small m and a, without any width
MulSmall(x, m) == Norm(MulSmallC(x, m, 0))
AddSmall(x, a) == Norm(MulSmallC(x, 1, a))

RECURSIVE DivRec(_, _)
DivRec(x, m) ==
    IF x = <<>> THEN [q |-> <<>>, r |-> 0]
    ELSE LET hi  == DivRec(Tail(x), m)
             cur == hi.r * LimbBase + Head(x)
         IN  [q |-> <<cur \div m>> \o hi.q, r |-> cur % m]

\* floor(x / m) for a small m
DivSmall(x, m) == Norm(DivRec(x, m).q)

\* x mod 2^64: the low 64 bits
Wrap64(x) ==
    Norm([i \in 1..(IF Len(x) < NumLimbs THEN Len(x) ELSE NumLimbs) |->
             IF i = NumLimbs THEN x[i] % TopLimbBase ELSE x[i]])

Limb(x, i) == IF i <= Len(x) THEN x[i] ELSE 0

\* bit 63 of a 64-bit pattern: the sign of the int64 it holds
SignBit(x) == Limb(x, NumLimbs) >= TopLimbBase \div 2

\* 2^64 - x for a 64-bit pattern x # 0: the magnitude of a negative int64
Neg64(x) ==
    Wrap64(AddSmall([i \in 1..NumLimbs |->
                        IF i = NumLimbs THEN TopLimbBase - 1 - Limb(x, i)
                        ELSE LimbBase - 1 - Limb(x, i)], 1))

\* Go's integer division and remainder truncate toward zero
GoQuo(a, n) == IF a >= 0 THEN a \div n ELSE -((-a) \div n)
GoRem(a, n) == IF a >= 0 THEN a % n ELSE -((-a) % n)

(***************************************************************************)
(* formatUptime.  time.Duration is an int64 count of nanoseconds, so       *)
(* time.Duration(uptime) * time.Second is uptime * 10^9 reduced to 64 bits *)
(* and read as a signed value.                                             *)
(***************************************************************************)
Thousand == 10 * 10 * 10
SecondsPerMinute == 60
MinutesPerHour == 60
HoursPerDay == 24

\* time.Duration(uptime) * time.Second, as [neg, mag]: sign and magnitude in ns
DurationOfSeconds(uptime) ==
    LET bits == Wrap64(MulSmall(MulSmall(MulSmall(uptime, Thousand), Thousand), Thousand))
    IN  IF SignBit(bits) THEN [neg |-> TRUE, mag |-> Neg64(bits)]
        ELSE [neg |-> FALSE, mag |-> bits]

\* d / time.Second, d / time.Minute, d / time.Hour: truncated quotients
WholeSeconds(d) == DivSmall(DivSmall(DivSmall(d.mag, Thousand), Thousand), Thousand)
WholeMinutes(d) ==
    LET n == ToInt(DivSmall(WholeSeconds(d), SecondsPerMinute))
    IN  IF d.neg THEN -n ELSE n
WholeHours(d) ==
    LET n == ToInt(DivSmall(DivSmall(WholeSeconds(d), SecondsPerMinute), MinutesPerHour))
    IN  IF d.neg THEN -n ELSE n

\* int(d.Hours()) and int(d.Minutes()): Hours() is float64(d / Hour) plus the
\* fraction float64(d % Hour) / 3.6e12, which has the sign of d and magnitude
\* below 1 - 2^-12, while |d / Hour| < 2^22: the float64 sum never reaches the
\* next integer, and int() truncates it to d / Hour.  Likewise for Minutes().
IntHours(d) == WholeHours(d)
IntMinutes(d) == WholeMinutes(d)
\* int(d.Hours() / 24): the quotient truncated toward zero
IntDays(d) == GoQuo(WholeHours(d), HoursPerDay)

uptimeDays(uptime) == IntDays(DurationOfSeconds(uptime))
uptimeHours(uptime) == GoRem(IntHours(DurationOfSeconds(uptime)), HoursPerDay)
uptimeMinutes(uptime) == GoRem(IntMinutes(DurationOfSeconds(uptime)), MinutesPerHour)

formatUptime(uptime) ==
    ToString(uptimeDays(uptime)) \o "d " \o ToString(uptimeHours(uptime)) \o "h "
        \o ToString(uptimeMinutes(uptime)) \o "m"

(***************************************************************************)
(* More limb arithmetic, for formatBytes.                                  *)
(***************************************************************************)
RECURSIVE BigLess(_, _)
\* x < y, for normalised x and y
BigLess(x, y) ==
    IF Len(x) # Len(y) THEN Len(x) < Len(y)
    ELSE IF x = <<>> THEN FALSE
    ELSE IF x[Len(x)] # y[Len(y)] THEN x[Len(x)] < y[Len(y)]
    ELSE BigLess(Norm(SubSeq(x, 1, Len(x) - 1)), Norm(SubSeq(y, 1, Len(y) - 1)))

BigLeq(x, y) == ~BigLess(y, x)

RECURSIVE SubRec(_, _, _)
SubRec(x, y, borrow) ==
    IF x = <<>> THEN <<>>
    ELSE LET t == Head(x) - (IF y = <<>> THEN 0 ELSE Head(y)) - borrow
         IN  <<t % LimbBase>>
                 \o SubRec(Tail(x), IF y = <<>> THEN <<>> ELSE Tail(y), IF t < 0 THEN 1 ELSE 0)

\* x - y, for x >= y
BigSub(x, y) == Norm(SubRec(x, y, 0))

RECURSIVE BitsOf(_)
\* the number of bits of a small n: 0 for 0, 1 for 1, 2 for 2..3, ...
BitsOf(n) == IF n = 0 THEN 0 ELSE 1 + BitsOf(n \div 2)

BitLen(x) == IF x = <<>> THEN 0 ELSE (Len(x) - 1) * BitsOf(LimbBase - 1) + BitsOf(x[Len(x)])

(***************************************************************************)
(* float64.  A float64 holds 53 significant bits; converting a uint64 with *)
(* more rounds it to the nearest such value, ties to the even one.  The    *)
(* result is kept as the integer it denotes (it may be 2^64).              *)
(***************************************************************************)
MantissaBits == 53

Float64OfUint(x) ==
    LET drop == BitLen(x) - MantissaBits
    IN  IF drop <= 0 THEN x
        ELSE LET p    == 2^drop                       \* at most 2^11
                 low  == Limb(x, 1) + LimbBase * Limb(x, 2)
                 r    == low % p
                 kept == low - r
                 down == Norm([i \in 1..Len(x) |->
                                  IF i = 1 THEN kept % LimbBase
                                  ELSE IF i = 2 THEN kept \div LimbBase
                                  ELSE x[i]])
                 odd  == (low \div p) % 2 = 1
             IN  IF 2 * r > p \/ (2 * r = p /\ odd) THEN AddSmall(down, p) ELSE down

(***************************************************************************)
(* formatBytes.                                                            *)
(***************************************************************************)
unit == 1024
Suffixes == <<"K", "M", "G", "T", "P", "E">>        \* "KMGTPE"
IndexPanic == "panic: index out of range"

RECURSIVE bytesLoopStrict(_, _, _)
\* bytesLoop with the loop condition n > unit
bytesLoopStrict(n, div, exp) ==
    IF BigLess(FromInt(unit), n)
    THEN bytesLoopStrict(DivSmall(n, unit), Wrap64(MulSmall(div, unit)), exp + 1)
    ELSE [div |-> div, exp |-> exp]

RECURSIVE bytesLoop(_, _, _)
\* for n := bytes / unit; n >= unit; n /= unit { div *= unit; exp++ }
bytesLoop(n, div, exp) ==
    IF BigLeq(FromInt(unit), n)
    THEN bytesLoop(DivSmall(n, unit), Wrap64(MulSmall(div, unit)), exp + 1)
    ELSE [div |-> div, exp |-> exp]

bytesScale(bytes) == bytesLoop(DivSmall(bytes, unit), FromInt(unit), 0)

\* the "%.1f" rendering of the float64 quotient num / den, den a power of two
\* (the division of two float64 values by a power of two is exact), as a count
\* of tenths: the nearest tenth, an exact tie going to the even digit
TenthsOfQuotient(num, den) ==
    LET RECURSIVE Quot(_, _)
        \* floor(a / den) by subtraction of den, for a < 2^14 * den
        Quot(a, step) ==
            IF step = 0 THEN [q |-> 0, r |-> a]
            ELSE LET d == MulSmall(den, step)
                     k == IF BigLeq(d, a) THEN Quot(BigSub(a, d), step) ELSE Quot(a, step \div 2)
                 IN  IF BigLeq(d, a) THEN [q |-> k.q + step, r |-> k.r] ELSE k
        qr    == Quot(MulSmall(num, 10), 2^14)
        twice == MulSmall(qr.r, 2)
    IN  IF BigLess(den, twice) \/ (twice = den /\ qr.q % 2 = 1) THEN qr.q + 1 ELSE qr.q

OneDecimal(tenths) == ToString(tenths \div 10) \o "." \o ToString(tenths % 10)

bytesTenths(bytes) == TenthsOfQuotient(Float64OfUint(bytes), bytesScale(bytes).div)

formatBytes(bytes) ==
    IF BigLess(bytes, FromInt(unit)) THEN ToString(ToInt(bytes)) \o " B"
    ELSE LET exp == bytesScale(bytes).exp
         IN  IF exp + 1 > Len(Suffixes) THEN IndexPanic
             ELSE OneDecimal(bytesTenths(bytes)) \o " " \o Suffixes[exp + 1] \o "iB"

(***************************************************************************)
(* Text as sequences of characters.                                        *)
(***************************************************************************)
RECURSIVE Str(_)
\* the string a sequence of characters spells
Str(cs) == IF cs = <<>> THEN "" ELSE Head(cs) \o Str(Tail(cs))

UpperOrDigit ==
    { "A", "B", "C", "D", "E", "F", "G", "H", "I", "J", "K", "L", "M", "N", "O", "P", "Q",
      "R", "S", "T", "U", "V", "W", "X", "Y", "Z",
      "0", "1", "2", "3", "4", "5", "6", "7", "8", "9" }              \* [A-Z0-9]
RegexSpace == { "\t", "\n", "\f", "\r", " " }                         \* \s
\* unicode.IsSpace, as far as the characters of the model go (it also holds of
\* the vertical tab, U+0085 and U+00A0)
UnicodeSpace == RegexSpace
Newline == "\n"

RECURSIVE RunLength(_, _)
\* the length of the longest prefix of cs made of characters of class
RunLength(cs, class) ==
    IF cs # <<>> /\ Head(cs) \in class THEN 1 + RunLength(Tail(cs), class) ELSE 0

RECURSIVE TrimLeft(_)
TrimLeft(cs) == IF cs # <<>> /\ Head(cs) \in UnicodeSpace THEN TrimLeft(Tail(cs)) ELSE cs

RECURSIVE TrimRight(_)
TrimRight(cs) ==
    IF cs # <<>> /\ cs[Len(cs)] \in UnicodeSpace THEN TrimRight(SubSeq(cs, 1, Len(cs) - 1))
    ELSE cs

\* strings.TrimSpace
TrimSpace(cs) == TrimRight(TrimLeft(cs))

RECURSIVE Split(_, _)
\* strings.Split(cs, sep) for a one-character sep: the segments between the seps
Split(cs, sep) ==
    IF cs = <<>> THEN << <<>> >>
    ELSE LET rest == Split(Tail(cs), sep)
         IN  IF Head(cs) = sep THEN << <<>> >> \o rest
             ELSE << <<Head(cs)>> \o Head(rest) >> \o Tail(rest)

(***************************************************************************)
(* cleanGPUName.  The pattern ^[A-Z0-9]+\s*\[(.+)\]$ is matched against     *)
(* the whole name.  The three leading pieces draw on disjoint sets of      *)
(* characters, so the only way to match is: the longest run of [A-Z0-9],   *)
(* then the longest run of \s, then '['.  The group (.+) is then all that  *)
(* lies between that '[' and the last character, which must be ']'; '.'    *)
(* matches any character except the newline (no s flag), and $ matches     *)
(* only at the end of the text (no m flag).                                *)
(***************************************************************************)
NoMatch == <<>>

\* re.FindStringSubmatch(name): <<whole match, group 1>>, or nothing
FindStringSubmatch(name) ==
    LET p     == RunLength(name, UpperOrDigit)
        w     == RunLength(SubSeq(name, p + 1, Len(name)), RegexSpace)
        open  == p + w + 1
        group == SubSeq(name, open + 1, Len(name) - 1)
    IN  IF /\ p >= 1
           /\ open < Len(name)
           /\ name[open] = "["
           /\ name[Len(name)] = "]"
           /\ Len(group) >= 1
           /\ \A i \in 1..Len(group) : group[i] # Newline
        THEN <<name, group>>
        ELSE NoMatch

\* cleanGPUName returning the group as it was captured
cleanGPUNameUntrimmed(name) ==
    LET matches == FindStringSubmatch(name)
    IN  IF Len(matches) > 1 THEN matches[2] ELSE name

cleanGPUName(name) ==
    LET matches == FindStringSubmatch(name)
    IN  IF Len(matches) > 1 THEN TrimSpace(matches[2]) ELSE name

(***************************************************************************)
(* Pointers and errors.  A nil pointer is the record Nil; a pointer to a   *)
(* struct is the struct's record.  An error is its text, NilErr when nil.  *)
(***************************************************************************)
Nil == [nil |-> TRUE]
IsNil(p) == "nil" \in DOMAIN p
NilErr == "<nil>"

(***************************************************************************)
(* getPackageCount.  The host (env) says what runtime.GOOS is, which       *)
(* executables the search path holds, what host.Info() reports when it     *)
(* succeeds and what the package tool prints when it succeeds.  Whether a  *)
(* query or a command succeeds is decided when it is made.                 *)
(***************************************************************************)
HostInfoErr == "host.Info: cannot read the host's facts"
UnsupportedDistro == "unsupported Linux distribution"
UnsupportedOS == "Unsupported OS for package counting"
ExitErr == "exit status 1"
LaunchErr(name) == "exec: \"" \o name \o "\": executable file not found in $PATH"

Command(name, flag) == [name |-> name, args |-> <<flag>>]      \* exec.Command
Dpkg == Command("dpkg", "--get-selections")
Pacman == Command("pacman", "-Q")
Rpm == Command("rpm", "-qa")

\* exec.LookPath(name): err == nil
LookPath(name, path) == name \in path

\* selectCommand with the fallback probing pacman before dpkg
selectCommandPacmanFirst(goos, platform, path) ==
    IF goos = "linux"
    THEN IF platform \in {"debian", "ubuntu"} THEN [cmd |-> Dpkg, err |-> NilErr]
         ELSE IF platform = "arch" THEN [cmd |-> Pacman, err |-> NilErr]
         ELSE IF platform \in {"fedora", "centos", "rhel"} THEN [cmd |-> Rpm, err |-> NilErr]
         ELSE IF LookPath("pacman", path) THEN [cmd |-> Pacman, err |-> NilErr]
         ELSE IF LookPath("dpkg", path) THEN [cmd |-> Dpkg, err |-> NilErr]
         ELSE IF LookPath("rpm", path) THEN [cmd |-> Rpm, err |-> NilErr]
         ELSE [cmd |-> Nil, err |-> UnsupportedDistro]
    ELSE [cmd |-> Nil, err |-> UnsupportedOS]

\* the switch on runtime.GOOS and osInfo.Platform: the command, or the error
selectCommand(goos, platform, path) ==
    IF goos = "linux"
    THEN IF platform \in {"debian", "ubuntu"} THEN [cmd |-> Dpkg, err |-> NilErr]
         ELSE IF platform = "arch" THEN [cmd |-> Pacman, err |-> NilErr]
         ELSE IF platform \in {"fedora", "centos", "rhel"} THEN [cmd |-> Rpm, err |-> NilErr]
         ELSE IF LookPath("dpkg", path) THEN [cmd |-> Dpkg, err |-> NilErr]
         ELSE IF LookPath("pacman", path) THEN [cmd |-> Pacman, err |-> NilErr]
         ELSE IF LookPath("rpm", path) THEN [cmd |-> Rpm, err |-> NilErr]
         ELSE [cmd |-> Nil, err |-> UnsupportedDistro]
    ELSE [cmd |-> Nil, err |-> UnsupportedOS]

\* countLines counting only the segments that hold text
countLinesNonEmpty(output) ==
    Cardinality({ i \in 1..Len(Split(output, Newline)) : Split(output, Newline)[i] # <<>> })

\* len(strings.Split(string(output), "\n")) - 1
countLines(output) == Len(Split(output, Newline)) - 1

\* a return: to the caller on the stack, or out of the function that was run alone
Return(value) ==
    /\ ret' = value
    /\ IF stack = <<>> THEN pc' = "return" /\ stack' = stack
       ELSE pc' = Head(stack) /\ stack' = Tail(stack)

PkgReturn(count, e) ==
    /\ Return([count |-> count, err |-> e])
    /\ pkgOsInfo' = NoValue /\ cmd' = NoValue

\* osInfo, err := host.Info(); if err != nil { return 0, err }
GpcHostInfo ==
    /\ pc = "getPackageCount"
    /\ \E ok \in BOOLEAN :
         IF ok
         THEN /\ pkgOsInfo' = env.host
              /\ pc' = "gpc_switch"
              /\ UNCHANGED <<stack, ret, cmd>>
         ELSE PkgReturn(0, HostInfoErr)
    /\ UNCHANGED <<arg, env, ran, mainVars>>

\* switch runtime.GOOS { ... }
GpcSwitch ==
    /\ pc = "gpc_switch"
    /\ LET sel == selectCommand(env.goos, pkgOsInfo.Platform, env.path)
       IN  IF sel.err # NilErr THEN PkgReturn(0, sel.err)
           ELSE /\ cmd' = sel.cmd
                /\ pc' = "gpc_output"
                /\ UNCHANGED <<stack, ret, pkgOsInfo>>
    /\ UNCHANGED <<arg, env, ran, mainVars>>

\* output, err := cmd.Output(); if err != nil { return 0, err }; return len(...) - 1, nil
\* A command whose executable the search path does not hold fails to launch; one
\* that is launched exits with a failure, or succeeds and prints the host's text.
\* ran records the command and how it ended.
GpcOutput ==
    /\ pc = "gpc_output"
    /\ IF ~LookPath(cmd.name, env.path)
       THEN /\ ran' = Append(ran, [cmd |-> cmd, ended |-> "not launched"])
            /\ PkgReturn(0, LaunchErr(cmd.name))
       ELSE \E ok \in BOOLEAN :
              IF ok THEN /\ ran' = Append(ran, [cmd |-> cmd, ended |-> "exit 0"])
                         /\ PkgReturn(countLines(env.pkgOutput), NilErr)
              ELSE /\ ran' = Append(ran, [cmd |-> cmd, ended |-> "exit 1"])
                   /\ PkgReturn(0, ExitErr)
    /\ UNCHANGED <<arg, env, mainVars>>

getPackageCount == GpcHostInfo \/ GpcSwitch \/ GpcOutput

(***************************************************************************)
(* getGPUInfo.  query is what ghw.GPU() returned: [err, cards], each card  *)
(* with DeviceInfo nil or a device whose Product and Vendor are nil or     *)
(* carry a Name.  The result says whether the function panicked instead of *)
(* returning.                                                              *)
(***************************************************************************)
NilDeref == "panic: runtime error: invalid memory address or nil pointer dereference"

Returned(value, e) == [value |-> value, err |-> e, panic |-> NilErr]
Panicked(why) == [value |-> "", err |-> NilErr, panic |-> why]

getGPUInfo(query) ==
    IF query.err # NilErr THEN Returned("", query.err)
    ELSE IF Len(query.cards) > 0
    THEN LET card == query.cards[1]
         IN  IF ~IsNil(card.DeviceInfo) /\ ~IsNil(card.DeviceInfo.Product)
             THEN Returned(Str(cleanGPUName(card.DeviceInfo.Product.Name)), NilErr)
             \* card.DeviceInfo.Vendor.Name
             ELSE IF IsNil(card.DeviceInfo) \/ IsNil(card.DeviceInfo.Vendor)
             THEN Panicked(NilDeref)
             ELSE Returned("Unknown GPU (Vendor: " \o card.DeviceInfo.Vendor.Name \o ")", NilErr)
    ELSE Returned("None", NilErr)

(***************************************************************************)
(* getCPUInfo.  query is what cpu.Info() returned: [err, list], and cores  *)
(* is runtime.NumCPU().  The speed is kept in MHz: the division by 1000    *)
(* that makes it GHz is done where it is printed.                          *)
(***************************************************************************)
getCPUInfo(query, cores) ==
    IF query.err # NilErr \/ Len(query.list) = 0
    THEN [model |-> "Unknown", cores |-> cores, mhz |-> 0]
    ELSE [model |-> query.list[1].ModelName, cores |-> cores, mhz |-> query.list[1].Mhz]

\* "%.2f" of mhz / 1000, for a whole number of MHz: hundredths, ties to even
TwoDecimals(mhz) ==
    LET q == mhz \div 10
        r == mhz % 10
        h == IF r > 5 \/ (r = 5 /\ q % 2 = 1) THEN q + 1 ELSE q
    IN  ToString(h \div 100) \o "." \o ToString((h \div 10) % 10) \o ToString(h % 10)

(***************************************************************************)
(* filepath.Base: the last element of a path, trailing slashes removed     *)
(* first; "." for the empty path and "/" for a path of slashes only.       *)
(***************************************************************************)
RECURSIVE StripSlashes(_)
StripSlashes(cs) ==
    IF cs # <<>> /\ cs[Len(cs)] = "/" THEN StripSlashes(SubSeq(cs, 1, Len(cs) - 1)) ELSE cs

RECURSIVE LastElement(_)
LastElement(cs) ==
    IF cs = <<>> \/ cs[Len(cs)] = "/" THEN <<>>
    ELSE Append(LastElement(SubSeq(cs, 1, Len(cs) - 1)), cs[Len(cs)])

Base(path) ==
    IF path = <<>> THEN <<".">>
    ELSE IF StripSlashes(path) = <<>> THEN <<"/">>
    ELSE LastElement(StripSlashes(path))

(***************************************************************************)
(* The presenter's helpers.  The escape character is written ^[.           *)
(***************************************************************************)
text == "^[[34m"
category == "^[[95m"
hostcol == "^[[34m"
reset == "^[[0m"

colourise(t, color) == color \o t \o reset

RECURSIVE Spaces(_)
Spaces(n) == IF n <= 0 THEN "" ELSE " " \o Spaces(n - 1)

\* "%-*s" of the empty string: a negative width asks for left justification
\* to its absolute value, so the padding is |width| spaces either way
PadEmpty(width) == Spaces(IF width < 0 THEN -width ELSE width)

\* "%s" of an error: the nil error has no text to print
ErrText(e) == IF e = NilErr THEN "%!s(<nil>)" ELSE e

Row(label, value) == [label |-> label, value |-> value]

RECURSIVE longestLabelLess(_, _)
\* longestLabel with the comparison turned round
longestLabelLess(rows, max) ==
    IF rows = <<>> THEN max
    ELSE longestLabelLess(Tail(rows), IF Len(Head(rows).label) < max THEN Len(Head(rows).label)
                                      ELSE max)

RECURSIVE longestLabel(_, _)
\* for _, item := range info { if len(item.label) > max { max = len(item.label) } }
longestLabel(rows, max) ==
    IF rows = <<>> THEN max
    ELSE longestLabel(Tail(rows), IF Len(Head(rows).label) > max THEN Len(Head(rows).label)
                                  ELSE max)

\* fmt.Printf("%s%-*s %s\n", colourise(label, category), max-len(label), "", colourise(value, text))
rowLine(item, max) ==
    colourise(item.label, category) \o PadEmpty(max - Len(item.label)) \o " "
        \o colourise(item.value, text) \o "\n"

headerLine(user, host) ==
    "^[[1m" \o colourise(user, hostcol) \o "@" \o colourise(host, hostcol) \o "^[[0m\n"

\* printColorBlocks: seven blocks of three spaces, each on one of the colours 0..6
\* (termenv's escape codes are written as bg(i)), and a newline
NumColors == 7
RECURSIVE blocks(_)
blocks(i) == IF i >= NumColors THEN "\n" ELSE "bg(" \o ToString(i) \o ")   " \o reset \o blocks(i + 1)

\* the rows main builds before the Packages row
baseRows(h, os, mem, cpu, g, shell) ==
    << Row("Hostname", h),
       Row("OS", os.Platform \o " " \o os.PlatformVersion),
       Row("Kernel", os.KernelVersion),
       Row("Uptime", formatUptime(os.Uptime)),
       Row("Shell", Str(Base(shell))),
       Row("CPU", cpu.model \o " (" \o ToString(cpu.cores) \o " cores @ "
                      \o TwoDecimals(cpu.mhz) \o " GHz)"),
       Row("GPU", g),
       Row("Memory", formatBytes(mem.Used) \o " / " \o formatBytes(mem.Total)) >>

\* packagesRow with the test packageCount > 0
packagesRowPositive(count, e) ==
    IF count > 0 THEN Row("Packages", ToString(count))
    ELSE Row("Packages", "Unable to determine (" \o ErrText(e) \o ")")

\* if packageCount >= 0 { "%d" } else { "Unable to determine (%s)", err }
packagesRow(count, e) ==
    IF count >= 0 THEN Row("Packages", ToString(count))
    ELSE Row("Packages", "Unable to determine (" \o ErrText(e) \o ")")

(***************************************************************************)
(* main.  A query the program makes of a library either succeeds with the  *)
(* host's fact or fails.  host.Info() and mem.VirtualMemory() return a     *)
(* pointer with the error; the libraries (gopsutil v3) return nil when     *)
(* they fail, and nothing in the program excludes either a nil or a zero   *)
(* struct, so a failed query yields one or the other.                      *)
(***************************************************************************)
ZeroInfoStat == [Platform |-> "", PlatformVersion |-> "", KernelVersion |-> "", Uptime |-> <<>>]
ZeroMemStat == [Used |-> <<>>, Total |-> <<>>]
HostnameErr == "hostname: unavailable"
MemErr == "mem.VirtualMemory: cannot read the memory facts"
CpuErr == "cpu.Info: cannot read the CPU facts"
GpuErr == "ghw.GPU: cannot list the graphics devices"

\* hostname, _ := os.Hostname(); username := os.Getenv("USER")
MainHostname ==
    /\ pc = "main"
    /\ \E ok \in BOOLEAN :
         /\ hostname' = IF ok THEN env.hostname ELSE ""
         /\ failed' = IF ok THEN failed ELSE failed \cup {"hostname"}
    /\ username' = env.user
    /\ pc' = "main_hostinfo"
    /\ UNCHANGED <<stack, arg, ret, env, pkgVars, osInfo, memInfo, cpuInfo, packageCount,
                   err, gpu, info, maxLabelLength, out>>

\* osInfo, _ := host.Info()
MainHostInfo ==
    /\ pc = "main_hostinfo"
    /\ \/ osInfo' = env.host /\ failed' = failed
       \/ osInfo' \in {Nil, ZeroInfoStat} /\ failed' = failed \cup {"hostinfo"}
    /\ pc' = "main_memory"
    /\ UNCHANGED <<stack, arg, ret, env, pkgVars, hostname, username, memInfo, cpuInfo,
                   packageCount, err, gpu, info, maxLabelLength, out>>

\* memInfo, _ := mem.VirtualMemory()
MainMemory ==
    /\ pc = "main_memory"
    /\ \/ memInfo' = env.mem /\ failed' = failed
       \/ memInfo' \in {Nil, ZeroMemStat} /\ failed' = failed \cup {"memory"}
    /\ pc' = "main_cpu"
    /\ UNCHANGED <<stack, arg, ret, env, pkgVars, hostname, username, osInfo, cpuInfo,
                   packageCount, err, gpu, info, maxLabelLength, out>>

\* cpuModel, logicalCores, cpuSpeed := getCPUInfo()
MainCPU ==
    /\ pc = "main_cpu"
    /\ \E query \in { [err |-> NilErr, list |-> env.cpus], [err |-> NilErr, list |-> <<>>],
                      [err |-> CpuErr, list |-> <<>>] } :
         /\ cpuInfo' = getCPUInfo(query, env.numCPU)
         /\ failed' = IF query.err = NilErr /\ query.list # <<>> THEN failed
                      ELSE failed \cup {"cpu"}
    /\ pc' = "main_packages"
    /\ UNCHANGED <<stack, arg, ret, env, pkgVars, hostname, username, osInfo, memInfo,
                   packageCount, err, gpu, info, maxLabelLength, out>>

\* packageCount, err := getPackageCount(): the call
MainCallPackages ==
    /\ pc = "main_packages"
    /\ pc' = "getPackageCount"
    /\ stack' = <<"main_packages_err">> \o stack
    /\ UNCHANGED <<arg, ret, env, pkgVars, mainVars>>

\* packageCount, err := getPackageCount(): the assignment of what it returned;
\* if err != nil { packageCount = -1 }
MainPackagesErr ==
    /\ pc = "main_packages_err"
    /\ err' = ret.err
    /\ packageCount' = IF ret.err # NilErr THEN -1 ELSE ret.count
    /\ failed' = IF ret.err # NilErr THEN failed \cup {"packages"} ELSE failed
    /\ pc' = "main_gpu"
    /\ UNCHANGED <<stack, arg, ret, env, pkgVars, hostname, username, osInfo, memInfo,
                   cpuInfo, gpu, info, maxLabelLength, out>>

\* gpu, err := getGPUInfo(); if err != nil { gpu = "None" }
\* (err is main's one err variable: := declares gpu and assigns err)
MainGPU ==
    /\ pc = "main_gpu"
    /\ \E query \in { [err |-> NilErr, cards |-> env.cards], [err |-> GpuErr, cards |-> <<>>] } :
         LET r == getGPUInfo(query)
         IN  /\ failed' = IF query.err = NilErr THEN failed ELSE failed \cup {"gpu"}
             /\ IF r.panic # NilErr
                THEN pc' = "panic" /\ UNCHANGED <<gpu, err>>
                ELSE /\ err' = r.err
                     /\ gpu' = IF r.err # NilErr THEN "None" ELSE r.value
                     /\ pc' = "main_header"
    /\ UNCHANGED <<stack, arg, ret, env, pkgVars, hostname, username, osInfo, memInfo,
                   cpuInfo, packageCount, info, maxLabelLength, out>>

\* fmt.Printf("\x1b[1m%s@%s\x1b[0m\n", ...)
MainHeader ==
    /\ pc = "main_header"
    /\ out' = Append(out, headerLine(username, hostname))
    /\ pc' = "main_info"
    /\ UNCHANGED <<stack, arg, ret, env, pkgVars, hostname, username, osInfo, memInfo,
                   cpuInfo, packageCount, err, gpu, info, maxLabelLength, failed>>

\* info := []struct{ label, value string }{ ... }, and the Packages row appended.
\* osInfo.Platform and memInfo.Used dereference the pointers the queries returned.
MainInfo ==
    /\ pc = "main_info"
    /\ IF IsNil(osInfo) \/ IsNil(memInfo)
       THEN pc' = "panic" /\ info' = info
       ELSE /\ info' = Append(baseRows(hostname, osInfo, memInfo, cpuInfo, gpu, env.shell),
                              packagesRow(packageCount, err))
            /\ pc' = "main_align"
    /\ UNCHANGED <<stack, arg, ret, env, pkgVars, hostname, username, osInfo, memInfo,
                   cpuInfo, packageCount, err, gpu, maxLabelLength, out, failed>>

\* maxLabelLength := 0; for _, item := range info { ... }
MainAlign ==
    /\ pc = "main_align"
    /\ maxLabelLength' = longestLabel(info, 0)
    /\ pc' = "main_print"
    /\ UNCHANGED <<stack, arg, ret, env, pkgVars, hostname, username, osInfo, memInfo,
                   cpuInfo, packageCount, err, gpu, info, out, failed>>

\* for _, item := range info { fmt.Printf(...) }
MainPrint ==
    /\ pc = "main_print"
    /\ out' = out \o [i \in 1..Len(info) |-> rowLine(info[i], maxLabelLength)]
    /\ pc' = "main_blocks"
    /\ UNCHANGED <<stack, arg, ret, env, pkgVars, hostname, username, osInfo, memInfo,
                   cpuInfo, packageCount, err, gpu, info, maxLabelLength, failed>>

\* printColorBlocks(), and main returns
MainBlocks ==
    /\ pc = "main_blocks"
    /\ out' = Append(out, blocks(0))
    /\ pc' = "exit"
    /\ UNCHANGED <<stack, arg, ret, env, pkgVars, hostname, username, osInfo, memInfo,
                   cpuInfo, packageCount, err, gpu, info, maxLabelLength, failed>>

main ==
    \/ MainHostname \/ MainHostInfo \/ MainMemory \/ MainCPU
    \/ MainCallPackages \/ MainPackagesErr \/ MainGPU
    \/ MainHeader \/ MainInfo \/ MainAlign \/ MainPrint \/ MainBlocks

(***************************************************************************)
(* Specification of formatUptime alone: the argument is drawn from windows *)
(* of consecutive values starting at chosen seconds counts.                *)
(***************************************************************************)
MaxDelta == 24

\* 9223372036 is the largest count of seconds whose nanoseconds fit an int64
UptimeBases ==
    { <<>>, FromInt(3590), FromInt(86390), FromInt(90050),
      FromInt(31 * 86400 - 10),
      AddSmall(MulSmall(FromInt(9223372), Thousand), 20),
      [i \in 1..NumLimbs |-> IF i = NumLimbs THEN TopLimbBase \div 2 - 1 ELSE LimbBase - 1],
      [i \in 1..NumLimbs |-> IF i = NumLimbs THEN TopLimbBase - 1
                             ELSE IF i = 1 THEN LimbBase - 1 - (MaxDelta + 1) ELSE LimbBase - 1] }

UptimeInputs == { AddSmall(b, k) : b \in UptimeBases, k \in 0..MaxDelta }

UptimeInit ==
    /\ pc = "formatUptime" /\ arg \in UptimeInputs /\ ret = NoValue
    /\ stack = <<>> /\ env = NoValue /\ NoPkg /\ NoMain

UptimeCall ==
    /\ pc = "formatUptime"
    /\ ret' = formatUptime(arg)
    /\ pc' = "return"
    /\ UNCHANGED <<stack, arg, env, pkgVars, mainVars>>

SpecUptime == UptimeInit /\ [][UptimeCall]_vars

(***************************************************************************)
(* Specification of formatBytes alone: every limb of the argument is drawn *)
(* from a few values, which gives the powers of 1024, their neighbours,    *)
(* the quarter points between them and the largest uint64.                 *)
(***************************************************************************)
MaxQuarter == 2

LimbVals == {0, 1, LimbBase - 1} \cup { (i * (LimbBase \div 4)) % LimbBase : i \in 1..MaxQuarter }
TopLimbVals == {0, 1, TopLimbBase - 1}

BytesInputs ==
    { Norm(<<a, b, c, d, e>> \o <<f, g>>) :
        a \in LimbVals, b \in LimbVals, c \in {0, 1}, d \in {0, LimbBase - 1},
        e \in {0, 1}, f \in LimbVals, g \in TopLimbVals }

BytesInit ==
    /\ pc = "formatBytes" /\ arg \in BytesInputs /\ ret = NoValue
    /\ stack = <<>> /\ env = NoValue /\ NoPkg /\ NoMain

BytesCall ==
    /\ pc = "formatBytes"
    /\ ret' = formatBytes(arg)
    /\ pc' = "return"
    /\ UNCHANGED <<stack, arg, env, pkgVars, mainVars>>

SpecBytes == BytesInit /\ [][BytesCall]_vars

(***************************************************************************)
(* Specification of cleanGPUName alone: the argument is any sequence of at *)
(* most MaxNameLen characters of a small alphabet that has a character of  *)
(* every kind the pattern tells apart, or one of three device names.       *)
(***************************************************************************)
MaxNameLen == 4

NameAlphabet == { "A", "7", "x", " ", "\n", "[", "]" }

RECURSIVE SeqsUpTo(_, _)
\* the sequences over S of length at most n
SeqsUpTo(S, n) ==
    IF n = 0 THEN { <<>> }
    ELSE LET shorter == SeqsUpTo(S, n - 1)
         IN  shorter \cup { <<c>> \o t : c \in S, t \in { u \in shorter : Len(u) = n - 1 } }

GeForce == <<"0", "3", "0", "0", " ", "[", "G", "e", "F", "o", "r", "c", "e", " ",
             "R", "T", "X", " ", "3", "0", "8", "0", "]">>
IntelHD == <<"I", "n", "t", "e", "l", " ", "H", "D", " ",
             "G", "r", "a", "p", "h", "i", "c", "s">>
AB12Foo == <<"A", "B", "1", "2", "[", "F", "o", "o", "]">>

NameInputs == SeqsUpTo(NameAlphabet, MaxNameLen) \cup { GeForce, IntelHD, AB12Foo }

NameInit ==
    /\ pc = "cleanGPUName" /\ arg \in NameInputs /\ ret = NoValue
    /\ stack = <<>> /\ env = NoValue /\ NoPkg /\ NoMain

NameCall ==
    /\ pc = "cleanGPUName"
    /\ ret' = cleanGPUName(arg)
    /\ pc' = "return"
    /\ UNCHANGED <<stack, arg, env, pkgVars, mainVars>>

SpecName == NameInit /\ [][NameCall]_vars

(***************************************************************************)
(* Specification of getPackageCount alone, on every host made of an        *)
(* operating system, a platform identity, a set of package tools on the    *)
(* search path and a text of at most MaxOutLen characters for the tool to  *)
(* print.                                                                  *)
(***************************************************************************)
MaxOutLen == 4

GoosVals == { "linux", "darwin", "windows" }
Platforms == { "debian", "ubuntu", "arch", "fedora", "centos", "rhel", "void", "" }
Tools == { "dpkg", "pacman", "rpm" }
ThreeLines == <<"a", "\n", "b", "\n", "c", "\n">>
Outputs == SeqsUpTo({ "a", "\n" }, MaxOutLen) \cup { ThreeLines }

InfoStat(platform, version, kernel, uptime) ==
    [Platform |-> platform, PlatformVersion |-> version, KernelVersion |-> kernel,
     Uptime |-> uptime]

PkgEnvs ==
    { [goos |-> g, path |-> p, host |-> InfoStat(d, "1", "6.1", FromInt(3661)), pkgOutput |-> o] :
        g \in GoosVals, p \in SUBSET Tools, d \in Platforms, o \in Outputs }

PkgInit ==
    /\ pc = "getPackageCount" /\ env \in PkgEnvs /\ arg = NoValue /\ ret = NoValue
    /\ stack = <<>> /\ NoPkg /\ NoMain

SpecPkg == PkgInit /\ [][getPackageCount]_vars

(***************************************************************************)
(* The program: main on a few hosts.                                       *)
(***************************************************************************)
Device(product, vendor) == [Product |-> product, Vendor |-> vendor]
Named(name) == [Name |-> name]
Card(deviceInfo) == [DeviceInfo |-> deviceInfo]

CardLists ==
    { <<>>,
      << Card(Device(Named(GeForce), Named("NVIDIA"))) >>,
      << Card(Device(Named(IntelHD), Named("Intel"))), Card(Device(Named(GeForce), Nil)) >>,
      << Card(Device(Nil, Named("NVIDIA"))) >>,
      << Card(Device(Nil, Nil)) >>,
      << Card(Nil) >> }

TwoPackages == <<"p", "1", "\n", "p", "2", "\n">>
BinBash == <<"/", "b", "i", "n", "/", "b", "a", "s", "h">>
GiB == <<0, 0, 0, 1>>

MainEnvs ==
    { [goos |-> g, path |-> {"pacman", "rpm"},
       host |-> InfoStat(d, "22.04", "5.15.0", FromInt(3661)),
       pkgOutput |-> o, hostname |-> "box", user |-> "alice", shell |-> BinBash,
       mem |-> [Used |-> GiB, Total |-> MulSmall(GiB, 2)],
       cpus |-> << [ModelName |-> "TestCPU", Mhz |-> 2500] >>, numCPU |-> 4,
       cards |-> c] :
        g \in {"linux", "darwin"}, d \in {"ubuntu", "void"},
        o \in SeqsUpTo({ "\n" }, MaxOutLen - 2) \cup { TwoPackages }, c \in CardLists }

Init ==
    /\ pc = "main" /\ stack = <<>> /\ arg = NoValue /\ ret = NoValue
    /\ env \in MainEnvs /\ NoPkg /\ NoMain

Next == main \/ getPackageCount

Spec == Init /\ [][Next]_vars

(***************************************************************************)
(* The properties.                                                         *)
(***************************************************************************)
AfterPackages == { "main_gpu", "main_header", "main_info", "main_align", "main_print",
                   "main_blocks", "exit" }
RowsBuilt == { "main_align", "main_print", "main_blocks", "exit" }
RowsPrinted == { "main_blocks", "exit" }

\* C1: whenever getPackageCount returned an error E (ret still holds what it
\* returned), main's count is the sentinel -1 and the value of the Packages row
\* is exactly "Unable to determine (E)".
C1_PackagesRowShowsError ==
    (pc \in RowsBuilt /\ ret.err # NilErr) =>
        /\ packageCount = -1
        /\ info[Len(info)] = Row("Packages", "Unable to determine (" \o ret.err \o ")")

\* What holds instead of C1: the row shows main's err variable as the GPU query
\* left it, which is the error of getGPUInfo, or nil.
C1_PackagesRowShowsGpuError ==
    (pc \in RowsBuilt /\ ret.err # NilErr) =>
        /\ packageCount = -1
        /\ info[Len(info)].value =
              "Unable to determine (" \o (IF "gpu" \in failed THEN GpuErr ELSE "%!s(<nil>)") \o ")"

Labels == <<"Hostname", "OS", "Kernel", "Uptime", "Shell", "CPU", "GPU", "Memory", "Packages">>

\* the first graphics device, if any, has a product or a vendor to show
GpuShapeSound ==
    \/ env.cards = <<>>
    \/ /\ ~IsNil(env.cards[1].DeviceInfo)
       /\ ~IsNil(env.cards[1].DeviceInfo.Product) \/ ~IsNil(env.cards[1].DeviceInfo.Vendor)

\* the value each of the first eight rows has by the documented fallbacks
FallbackValue(i) ==
    CASE i = 1 -> IF "hostname" \in failed THEN "" ELSE env.hostname
      [] i = 2 -> IF "hostinfo" \in failed THEN " "
                  ELSE env.host.Platform \o " " \o env.host.PlatformVersion
      [] i = 3 -> IF "hostinfo" \in failed THEN "" ELSE env.host.KernelVersion
      [] i = 4 -> IF "hostinfo" \in failed THEN "0d 0h 0m" ELSE formatUptime(env.host.Uptime)
      [] i = 5 -> Str(Base(env.shell))
      [] i = 6 -> IF "cpu" \in failed
                  THEN "Unknown (" \o ToString(env.numCPU) \o " cores @ 0.00 GHz)"
                  ELSE env.cpus[1].ModelName \o " (" \o ToString(env.numCPU) \o " cores @ "
                           \o TwoDecimals(env.cpus[1].Mhz) \o " GHz)"
      [] i = 7 -> IF "gpu" \in failed THEN "None"
                  ELSE getGPUInfo([err |-> NilErr, cards |-> env.cards]).value
      [] i = 8 -> IF "memory" \in failed THEN "0 B / 0 B"
                  ELSE formatBytes(env.mem.Used) \o " / " \o formatBytes(env.mem.Total)

\* C2: when exactly one fact source failed (and the graphics device, if listed,
\* is well formed), main does not abort, and at its end it has printed one row
\* per label in the fixed order, the failed fact showing its fallback and every
\* other fact its value.
C2_SingleFailureStillRenders ==
    (Cardinality(failed) = 1 /\ GpuShapeSound) =>
        /\ pc # "panic"
        /\ pc = "exit" =>
             /\ Len(info) = Len(Labels)
             /\ \A i \in 1..Len(Labels) : info[i].label = Labels[i]
             /\ \A i \in 1..(Len(Labels) - 1) : info[i].value = FallbackValue(i)
             /\ Len(out) = Len(Labels) + 2

\* What holds instead of C2: the same, provided the failed query did not return
\* a nil pointer.
C2_SingleFailureNoNilPointer ==
    (Cardinality(failed) = 1 /\ GpuShapeSound /\ pc \in {"main_info", "panic", "exit"}
        /\ ~IsNil(osInfo) /\ ~IsNil(memInfo)) =>
        /\ pc # "panic"
        /\ pc = "exit" =>
             /\ Len(info) = Len(Labels)
             /\ \A i \in 1..Len(Labels) : info[i].label = Labels[i]
             /\ \A i \in 1..(Len(Labels) - 1) : info[i].value = FallbackValue(i)
             /\ Len(out) = Len(Labels) + 2

(***************************************************************************)
(* getPackageCount.                                                        *)
(***************************************************************************)
\* the command the table of C3 selects: "none" where it says the function fails
TableCommand(platform, path) ==
    CASE platform \in {"debian", "ubuntu"} -> Dpkg
      [] platform = "arch" -> Pacman
      [] platform \in {"fedora", "centos", "rhel"} -> Rpm
      [] OTHER -> IF "dpkg" \in path THEN Dpkg
                  ELSE IF "pacman" \in path THEN Pacman
                  ELSE IF "rpm" \in path THEN Rpm
                  ELSE Nil

\* the table of C3 with `text` as the message for a non-Linux OS, in the states
\* after host.Info() succeeded: the command handed to Output() while it is
\* pending, and what was run and returned at the end
SelectionTable(osText) ==
    /\ pc = "gpc_output" =>
          /\ env.goos = "linux"
          /\ cmd = TableCommand(env.host.Platform, env.path)
          /\ ran = <<>>
    /\ (pc = "return" /\ ret.err # HostInfoErr) =>
          IF env.goos # "linux" THEN ret.err = osText /\ ran = <<>>
          ELSE IF IsNil(TableCommand(env.host.Platform, env.path))
          THEN ret.err = "unsupported Linux distribution" /\ ran = <<>>
          ELSE Len(ran) = 1 /\ ran[1].cmd = TableCommand(env.host.Platform, env.path)

\* C3, as stated: the selection table, a non-Linux OS failing with
\* "unsupported OS for package counting".
C3_TableAsStated == SelectionTable("unsupported OS for package counting")

\* C3, amended: the selection table, a non-Linux OS failing with
\* "Unsupported OS for package counting" (capital U), as the code spells it.
C3_TableAmended == SelectionTable("Unsupported OS for package counting")

\* C3's case: an unlisted distribution without dpkg, where the probe reaches pacman
C3_Witness ==
    /\ pc = "return" /\ env.goos = "linux" /\ env.host.Platform = "void"
    /\ env.path = {"pacman", "rpm"} /\ Len(ran) = 1 /\ ran[1].cmd = Pacman

RECURSIVE Occurrences(_, _)
\* how many times c occurs in cs
Occurrences(cs, c) ==
    IF cs = <<>> THEN 0
    ELSE (IF Head(cs) = c THEN 1 ELSE 0) + Occurrences(Tail(cs), c)

\* C4: a command that succeeded returns, with no error, the number of
\* newline-delimited segments of its output minus 1 (the segments are one more
\* than the newlines, whatever they hold): 3 for "a\nb\nc\n", 0 for ""; a
\* command that failed to launch or exited nonzero returns an error.
C4_CountIsSegmentsMinusOne ==
    (pc = "return" /\ ran # <<>>) =>
        IF ran[1].ended = "exit 0"
        THEN /\ ret.err = NilErr
             /\ ret.count = (Occurrences(env.pkgOutput, "\n") + 1) - 1
             /\ env.pkgOutput = ThreeLines => ret.count = 3
             /\ env.pkgOutput = <<>> => ret.count = 0
        ELSE ret.err # NilErr

\* C4's case: the tool printed "a\nb\nc\n" and 3 was returned
C4_Witness ==
    /\ pc = "return" /\ ran # <<>> /\ env.pkgOutput = ThreeLines
    /\ ret = [count |-> 3, err |-> NilErr]

(***************************************************************************)
(* formatUptime.                                                           *)
(***************************************************************************)
RECURSIVE Digits(_)
Digits(x) == IF x = <<>> THEN "" ELSE Digits(DivSmall(x, 10)) \o ToString(DivRec(x, 10).r)
\* the decimal numeral of a limb sequence
Decimal(x) == IF x = <<>> THEN "0" ELSE Digits(x)

\* "{d}d {h}h {m}m" with d = floor(s / 86400), h = floor(s / 3600) mod 24 and
\* m = floor(s / 60) mod 60
UptimeText(s) ==
    Decimal(DivSmall(s, 86400)) \o "d " \o ToString(DivRec(DivSmall(s, 3600), 24).r) \o "h "
        \o ToString(DivRec(DivSmall(s, 60), 60).r) \o "m"

\* C5: for every unsigned seconds value s, formatUptime(s) is "{d}d {h}h {m}m"
\* with d = floor(s / 86400), h = floor(s / 3600) mod 24, m = floor(s / 60) mod 60.
C5_EverySeconds == pc = "return" => ret = UptimeText(arg)

\* the largest s with s * 10^9 < 2^63
MaxExactSeconds == AddSmall(MulSmall(FromInt(9223372), Thousand), 36)

\* What holds instead of C5: the same for the values s whose count of
\* nanoseconds fits an int64 (s <= 9223372036).
C5_SecondsInRange == (pc = "return" /\ BigLeq(arg, MaxExactSeconds)) => ret = UptimeText(arg)

(***************************************************************************)
(* formatBytes.                                                            *)
(***************************************************************************)
RECURSIVE Pow1024(_)
Pow1024(k) == IF k = 0 THEN <<1>> ELSE <<0>> \o Pow1024(k - 1)

TenthsText(t) == ToString(t \div 10) \o "." \o ToString(t % 10)

\* |10 * b - t * 1024^j|, twice: the distance of t tenths from b / 1024^j, in
\* units of 1 / (20 * 1024^j)
TwiceDistance(b, t, j) ==
    LET x == MulSmall(b, 10)
        y == MulSmall(Pow1024(j), t)
    IN  MulSmall(IF BigLess(x, y) THEN BigSub(y, x) ELSE BigSub(x, y), 2)

RECURSIVE FloorTenths(_, _)
\* floor(x / 1024^j), for a quotient that is small
FloorTenths(x, j) == IF j = 0 THEN ToInt(x) ELSE FloorTenths(DivSmall(x, 1024), j - 1)

\* C6: formatBytes(b) is "{b} B" below 1024; otherwise there is a k in 0..5 with
\* 1024^(k+1) <= b < 1024^(k+2), the suffix is the k-th of K, M, G, T, P, E (the
\* lookup never leaves the sequence), and the value is b / 1024^(k+1) to one
\* decimal digit: the nearest tenth when b is exact as a float64 (below 2^53),
\* and less than a tenth away from it in any case.  0 -> "0 B", 1023 -> "1023 B",
\* 1024 -> "1.0 KiB", 1536 -> "1.5 KiB", 1024 * 1024 -> "1.0 MiB".
C6_BytesText ==
    pc = "return" =>
        /\ ret # IndexPanic
        /\ IF Len(arg) <= 1 THEN ret = ToString(ToInt(arg)) \o " B"
           ELSE \E k \in 0..5 :
                  /\ BigLeq(Pow1024(k + 1), arg) /\ BigLess(arg, Pow1024(k + 2))
                  /\ \E t \in { FloorTenths(MulSmall(arg, 10), k + 1) + d : d \in {0, 1} } :
                       /\ ret = TenthsText(t) \o " " \o <<"K", "M", "G", "T", "P", "E">>[k + 1] \o "iB"
                       /\ BigLess(TwiceDistance(arg, t, k + 1), MulSmall(Pow1024(k + 1), 2))
                       /\ BitLen(arg) <= 53 =>
                            BigLeq(TwiceDistance(arg, t, k + 1), Pow1024(k + 1))
        /\ arg = <<>> => ret = "0 B"
        /\ arg = <<1023>> => ret = "1023 B"
        /\ arg = <<0, 1>> => ret = "1.0 KiB"
        /\ arg = <<512, 1>> => ret = "1.5 KiB"
        /\ arg = <<0, 0, 1>> => ret = "1.0 MiB"

\* C6's case: 1536 bytes rendered with the first suffix
C6_Witness == pc = "return" /\ arg = <<512, 1>> /\ ret = "1.5 KiB"

(***************************************************************************)
(* cleanGPUName.                                                           *)
(***************************************************************************)
\* t is cs without the whitespace around it
IsTrimOf(t, cs) ==
    \E i \in 1..(Len(cs) + 1) : \E j \in 0..Len(cs) :
        /\ t = SubSeq(cs, i, j)
        /\ \A k \in 1..(i - 1) : cs[k] \in RegexSpace
        /\ \A k \in (j + 1)..Len(cs) : cs[k] \in RegexSpace
        /\ t # <<>> => t[1] \notin RegexSpace /\ t[Len(t)] \notin RegexSpace
        /\ t = <<>> => \A k \in 1..Len(cs) : cs[k] \in RegexSpace

\* raw has the shape "[A-Z0-9]+, whitespace, '[', one or more characters (of
\* those allowed), ']' at the end" with the bracket opening at position o
ShapeAt(raw, o, allowed) ==
    /\ o >= 2 /\ o + 1 < Len(raw)
    /\ \E p \in 1..(o - 1) :
         /\ \A i \in 1..p : raw[i] \in UpperOrDigit
         /\ \A i \in (p + 1)..(o - 1) : raw[i] \in RegexSpace
    /\ raw[o] = "[" /\ raw[Len(raw)] = "]"
    /\ \A i \in (o + 1)..(Len(raw) - 1) : raw[i] \in allowed

\* cleanGPUName's result by the shape of its argument, the bracketed part being
\* made of the characters allowed
CleanedByShape(allowed) ==
    pc = "return" =>
        IF \E o \in 1..Len(arg) : ShapeAt(arg, o, allowed)
        THEN \A o \in 1..Len(arg) :
                ShapeAt(arg, o, allowed) => IsTrimOf(ret, SubSeq(arg, o + 1, Len(arg) - 1))
        ELSE ret = arg

\* every character of the names the specification draws
Characters == NameAlphabet \cup UNION { { n[i] : i \in 1..Len(n) } : n \in { GeForce, IntelHD, AB12Foo } }

\* C7, as stated: the bracketed part is one or more characters, of any kind.
C7_AnyCharacters == CleanedByShape(Characters)

\* C7, amended: the bracketed part is one or more characters other than the
\* newline; a name with a newline between the brackets is returned unchanged.
C7_NoNewline == CleanedByShape(Characters \ { "\n" })

\* C7's case: the device name with a model number before the bracket
C7_Witness ==
    /\ pc = "return" /\ arg = GeForce
    /\ Str(ret) = "GeForce RTX 3080"

(***************************************************************************)
(* The GPU row, the presenter and the sentinel.                            *)
(***************************************************************************)
\* the program stopped in getGPUInfo: before anything was printed
AbortedInGpu == pc = "panic" /\ out = <<>>

\* C8: the GPU value is "None" when the query fails or lists nothing; otherwise
\* it comes from the first device: its cleaned product name when it has one,
\* "Unknown GPU (Vendor: {vendor})" when it has no product but a vendor; and no
\* shape of the first device makes the program abort.
C8_GpuRow ==
    pc \in ({ "panic" } \cup (AfterPackages \ { "main_gpu" })) =>
        /\ ~AbortedInGpu
        /\ pc # "panic" =>
             IF "gpu" \in failed \/ env.cards = <<>> THEN gpu = "None"
             ELSE LET dev == env.cards[1].DeviceInfo
                  IN  /\ (~IsNil(dev) /\ ~IsNil(dev.Product)) =>
                            gpu = Str(cleanGPUName(dev.Product.Name))
                      /\ (~IsNil(dev) /\ IsNil(dev.Product) /\ ~IsNil(dev.Vendor)) =>
                            gpu = "Unknown GPU (Vendor: " \o dev.Vendor.Name \o ")"

\* What holds instead of C8: the same values, the program aborting exactly when
\* the query succeeds and the first device has neither product nor vendor to
\* read (no device info, or device info without both).
C8_GpuRowOrAbort ==
    pc \in ({ "panic" } \cup (AfterPackages \ { "main_gpu" })) =>
        /\ AbortedInGpu <=> ("gpu" \notin failed /\ ~GpuShapeSound)
        /\ pc # "panic" =>
             IF "gpu" \in failed \/ env.cards = <<>> THEN gpu = "None"
             ELSE LET dev == env.cards[1].DeviceInfo
                  IN  /\ (~IsNil(dev) /\ ~IsNil(dev.Product)) =>
                            gpu = Str(cleanGPUName(dev.Product.Name))
                      /\ (~IsNil(dev) /\ IsNil(dev.Product) /\ ~IsNil(dev.Vendor)) =>
                            gpu = "Unknown GPU (Vendor: " \o dev.Vendor.Name \o ")"

\* C9: maxLabelLength is the greatest label length; every row is printed as
\* its label, maxLabelLength - len(label) >= 0 spaces, one space and the value,
\* so every value starts maxLabelLength + 1 visible characters into its line;
\* label and value are each wrapped as start code + text + reset code.
C9_RowsAligned ==
    /\ pc \in { "main_print", "main_blocks", "exit" } =>
          /\ \A i \in 1..Len(info) : Len(info[i].label) <= maxLabelLength
          /\ \E i \in 1..Len(info) : Len(info[i].label) = maxLabelLength
    /\ pc \in RowsPrinted =>
          /\ Len(out) >= 1 + Len(info)
          /\ \A i \in 1..Len(info) :
               \E n \in 0..maxLabelLength :
                  /\ n = maxLabelLength - Len(info[i].label)
                  /\ Len(info[i].label) + n + 1 = maxLabelLength + 1
                  /\ out[1 + i] = "^[[95m" \o info[i].label \o "^[[0m" \o Spaces(n) \o " "
                                      \o "^[[34m" \o info[i].value \o "^[[0m" \o "\n"

\* C9's case: all rows printed, the row of the short label OS padded by six
C9_Witness ==
    /\ pc = "exit" /\ Len(info) = 9 /\ maxLabelLength = 8
    /\ out[3] = "^[[95mOS^[[0m" \o "      " \o " " \o "^[[34m" \o info[2].value \o "^[[0m\n"

\* the texts main's err variable can print as
ErrTexts == { "%!s(<nil>)", GpuErr, HostInfoErr, UnsupportedOS, UnsupportedDistro, ExitErr }
               \cup { LaunchErr(t) : t \in Tools }

\* C10: a count returned without an error is >= 0, so in main the Packages row
\* shows the decimal count exactly when getPackageCount returned no error and
\* the "Unable to determine (...)" form exactly when it returned one; -1 is
\* never printed.
C10_SentinelNeverCollides ==
    /\ (pc \in AfterPackages \cup { "main_packages_err", "panic" } /\ ret.err = NilErr) =>
          ret.count >= 0
    /\ pc \in RowsBuilt =>
          LET shown == info[Len(info)].value
          IN  /\ info[Len(info)].label = "Packages"
              /\ shown # "-1"
              /\ ret.err = NilErr <=> shown = ToString(ret.count)
              /\ ret.err # NilErr <=>
                    \E t \in ErrTexts : shown = "Unable to determine (" \o t \o ")"
    /\ pc \in RowsPrinted =>
          \A i \in 1..Len(out) : out[i] # "^[[95mPackages^[[0m ^[[34m-1^[[0m\n"

\* C10's case: the run ends with the sentinel set and the row in its error form
C10_Witness ==
    /\ pc = "exit" /\ ret.err # NilErr /\ packageCount = -1
    /\ \E t \in ErrTexts : info[9].value = "Unable to determine (" \o t \o ")"

====
